---- MODULE Spec2Model ----
(***************************************************************************)
(* A model of cppincludes2dot.py: the include resolver (search_includes,   *)
(* tidy_path), the display-name and edge bookkeeping of                    *)
(* collect_include_dependencies, the per-file loop of collect_dependencies *)
(* and the emitter output_dependencies.                                    *)
(*                                                                         *)
(* Representation.  A path is a sequence of segments; a segment is a pair  *)
(* <<stem, ext>> standing for the text "stem.ext" ("stem" when ext = ""),  *)
(* so "d/foo.cpp" is << <<"d","">>, <<"foo","cpp">> >> and "" is << >>.    *)
(* A location on disk is [up |-> n, down |-> p]: n levels above the        *)
(* current working directory, then the real segments p.                    *)
(***************************************************************************)
EXTENDS Integers, Sequences, FiniteSets, TLC

VARIABLES
    \* ---- the run of main() ----
    context,        \* program_options, fixed after parse_cmdline_options
    debug,          \* the global debug, set by -d
    py3,            \* TRUE: the interpreter is Python 3, FALSE: Python 2
    files,          \* the list collect_cfiles returns, in os.walk order
    pc,             \* position of main()
    idx,            \* index into files of the file the loop is at
    open_files,     \* indexes of the source files whose handle is open
    fp,             \* index of the file the local fp is bound to, 0: unbound
    tb,             \* Python 2: index of the file whose failed read is held by
                    \* the saved traceback, 0: none
    lineno,         \* lines of the current file consumed so far
    line,           \* the line consumed last
    edges,          \* collect_include_dependencies: edges of this file
    clusters,       \* collect_include_dependencies: clusters of this file
    notfound,       \* collect_include_dependencies: notfound of this file
    all_edges,      \* collect_dependencies: edge -> count
    all_clusters,   \* collect_dependencies: set of cluster blocks
    all_notfound,   \* collect_dependencies: set of diagnostics
    out,            \* what was written to sys.stdout, in order
    err,            \* what was written to sys.stderr, in order
    \* ---- history, read by the properties only ----
    total,          \* edge -> number of put_edge_def calls of the files read to the end
    seen,           \* <<file, resolved file>> -> number of include lines of the
                    \* file that matched and resolved to it, for the files
                    \* read so far without a failure; kept in the runs under
                    \* file merge with basenames, empty in the others
    \* ---- one call of search_includes / tidy_path ----
    disk,           \* the file system: [dirs, files], sets of locations
    s_pc,           \* "idle", "args" (arguments chosen), "ret" (returned)
    s_dir,          \* directory of the including file
    s_token,        \* the include token
    s_paths,        \* include_paths
    s_result        \* the value returned

vars == <<context, debug, py3, files, pc, idx, open_files, fp, tb, lineno,
          line, edges, clusters, notfound, all_edges, all_clusters,
          all_notfound, out, err, total, seen, disk, s_pc, s_dir, s_token,
          s_paths, s_result>>

run_vars == <<context, debug, py3, files, pc, idx, open_files, fp, tb, lineno,
              line, edges, clusters, notfound, all_edges, all_clusters,
              all_notfound, out, err, total, seen>>

\* what a run of main() does not change once the options are parsed
env_vars == <<context, debug, py3, files, disk>>

\* the locals of collect_include_dependencies
local_vars == <<lineno, line, edges, clusters, notfound>>

\* the accumulators of collect_dependencies, with their history
acc_vars == <<all_edges, all_clusters, all_notfound, total, seen>>

\* the file objects and the references that keep them alive
handle_vars == <<open_files, fp, tb>>

search_vars == <<s_pc, s_dir, s_token, s_paths, s_result>>

-----------------------------------------------------------------------------
(* Bounds *)

\* lines read from one source file
MaxLines == 2
\* segments before the file name in an include token of the resolver runs
MaxTokenDirs == 2

-----------------------------------------------------------------------------
(* Paths *)

C_FILE_SUFFIXES == {"c", "cc", "cxx", "cpp", "C", "h", "hpp", "hxx"}

Seg(stem, ext) == <<stem, ext>>
UP == Seg("..", "")
DOT == Seg(".", "")

\* The empty text after a trailing separator: "d/" is << <<"d","">>, EMPTY >>.
\* EMPTY occurs as the last segment of a path of two or more segments only.
EMPTY == Seg("", "")

\* search_includes returns None when nothing is found; no segment has this
\* shape, so this value is no path.
None == << Seg("", "None") >>

\* os.path.dirname: the text before the last separator ("d/" gives "d")
dirname(path) == IF Len(path) <= 1 THEN << >> ELSE SubSeq(path, 1, Len(path) - 1)

\* os.path.basename: the text after the last separator ("d/" gives "")
basename(path) ==
    IF path = << >> \/ path[Len(path)] = EMPTY THEN << >>
    ELSE << path[Len(path)] >>

\* os.path.join(a, b) for a relative b: "" joined to b is b; otherwise a, one
\* separator unless a ends in one already, then b, so that ("d", "") gives "d/"
join(a, b) ==
    IF a = << >> THEN b
    ELSE IF b = << >>
         THEN IF a[Len(a)] = EMPTY THEN a ELSE Append(a, EMPTY)
    ELSE IF a[Len(a)] = EMPTY THEN SubSeq(a, 1, Len(a) - 1) \o b
    ELSE a \o b

\* os.path.normpath: what a relative path denotes, no symbolic links
RECURSIVE normpath_from(_, _, _)
normpath_from(path, i, loc) ==
    IF i > Len(path) THEN loc
    ELSE IF path[i] \in {DOT, EMPTY} THEN normpath_from(path, i + 1, loc)
    ELSE IF path[i] = UP
         THEN IF loc.down = << >>
              THEN normpath_from(path, i + 1, [loc EXCEPT !.up = @ + 1])
              ELSE normpath_from(path, i + 1,
                       [loc EXCEPT !.down = SubSeq(@, 1, Len(@) - 1)])
    ELSE normpath_from(path, i + 1, [loc EXCEPT !.down = Append(@, path[i])])

Cwd == [up |-> 0, down |-> << >>]

normpath(path) == normpath_from(path, 1, Cwd)

\* os.path.exists(path), from the current working directory: every proper
\* prefix must lead to a directory, the whole path to a directory or a file.
\* The working directory and its ancestors are directories.
IsDir(loc) == loc.down = << >> \/ loc \in disk.dirs

exists(path) ==
    /\ path # << >>
    /\ \A k \in 1 .. Len(path) - 1 : IsDir(normpath(SubSeq(path, 1, k)))
    /\ LET loc == normpath(path) IN IsDir(loc) \/ loc \in disk.files

-----------------------------------------------------------------------------
(* search_includes *)

\* re.sub(r'[^/]+?/\.\./', '', os.path.normcase(path)); normcase is the
\* identity on POSIX.  The pattern matches one whole segment of any text,
\* followed by "/../": the ".." must itself be followed by a separator.
\* Matches are taken leftmost, do not overlap, and the text is scanned once.
RECURSIVE tidy_from(_, _)
tidy_from(path, i) ==
    IF i > Len(path) THEN << >>
    ELSE IF i + 2 <= Len(path) /\ path[i] # EMPTY /\ path[i + 1] = UP
         THEN tidy_from(path, i + 2)
         ELSE << path[i] >> \o tidy_from(path, i + 1)

\* "x/../" becomes the empty text
tidy_path(path) ==
    LET tidied == tidy_from(path, 1)
    IN  IF tidied = << EMPTY >> THEN << >> ELSE tidied

\* The candidates, in the order search_includes builds them.
rel_path(incl_stmt, filename) == tidy_path(join(dirname(filename), incl_stmt))

tmp_path(incl_stmt, path) == tidy_path(join(path, incl_stmt))

first_include_hit(incl_stmt, include_paths) ==
    LET hits == {i \in 1 .. Len(include_paths) :
                    exists(tmp_path(incl_stmt, include_paths[i]))}
    IN  IF hits = {} THEN 0 ELSE CHOOSE i \in hits : \A j \in hits : i <= j

\* A resolver that tries the include directories before the including
\* file's own directory.
search_includes_paths_first(incl_stmt, filename, include_paths) ==
    LET hit == first_include_hit(incl_stmt, include_paths)
    IN  IF hit # 0 THEN tmp_path(incl_stmt, include_paths[hit])
        ELSE IF exists(rel_path(incl_stmt, filename))
             THEN rel_path(incl_stmt, filename)
        ELSE IF exists(incl_stmt) THEN incl_stmt
        ELSE None

search_includes(incl_stmt, filename, include_paths) ==
    IF exists(rel_path(incl_stmt, filename))
    THEN rel_path(incl_stmt, filename)
    ELSE LET hit == first_include_hit(incl_stmt, include_paths)
         IN  IF hit # 0 THEN tmp_path(incl_stmt, include_paths[hit])
             ELSE IF exists(incl_stmt) THEN incl_stmt
             ELSE None

-----------------------------------------------------------------------------
(* Display names, edges, clusters, diagnostics *)

\* re.sub(r'\.(c|cc|cxx|cpp|C|h|hpp|hxx)$', '', filename): the suffix of the
\* last segment goes when it is one of C_FILE_SUFFIXES.
strip_suffix(filename) ==
    IF filename # << >> /\ filename[Len(filename)][2] \in C_FILE_SUFFIXES
    THEN [filename EXCEPT ![Len(filename)] = Seg(@[1], "")]
    ELSE filename

to_display_version(filename, paths, merge) ==
    LET shown == IF paths THEN filename ELSE basename(filename)
    IN  IF merge = "module" THEN strip_suffix(shown) ELSE shown

\* A dict is a function from its keys; dict.get(key, default).
EmptyDict == [k \in {} |-> 0]

dict_get(d, key, default) == IF key \in DOMAIN d THEN d[key] ELSE default

\* DOT_EDGE_DEFINITION % (dest, source): the text '    "dest" -> "source"',
\* kept as the pair of the two names it is made of.
DOT_EDGE_DEFINITION(dest, source) == <<dest, source>>

put_edge_def(edgemap, source, dest) ==
    LET edge == DOT_EDGE_DEFINITION(dest, source)
    IN  [k \in DOMAIN edgemap \cup {edge} |->
            IF k = edge THEN dict_get(edgemap, edge, 0) + 1 ELSE edgemap[k]]

\* DOT_SUB_GRAPH % (group_name, group_name, file_name), kept as the pair
DOT_SUB_GRAPH(group_name, file_name) == <<group_name, file_name>>

put_cluster_def(clusterset, group_name, file_name) ==
    clusterset \cup {DOT_SUB_GRAPH(dirname(group_name), file_name)}

\* The compiled pattern, named by what it accepts.
build_include_regex(quote_types) ==
    IF quote_types = "angle" THEN "angle_only"
    ELSE IF quote_types = "system" THEN "quote_only"
    ELSE "any_token"

\* A line is [style, token]: style "angle" for  #include <token>, "quote"
\* for  #include "token", "text" for a line that is no include directive.
\* (\S+) needs one character at least: between delimiters the token must
\* not be empty, without them the two quotes of  ""  are matched.
regex_match(regex, ln) ==
    \/ regex = "angle_only" /\ ln.style = "angle" /\ ln.token # << >>
    \/ regex = "quote_only" /\ ln.style = "quote" /\ ln.token # << >>
    \/ regex = "any_token" /\ ln.style \in {"angle", "quote"}

\* matcher.group(1): the two delimited patterns capture the text between the
\* delimiters, the pattern (\S+) captures the delimiters too.
matcher_group(regex, ln) ==
    [delim |-> IF regex = "any_token" THEN ln.style ELSE "bare",
     token |-> ln.token]

\* re.sub(r'[\<\>"]', '', included)
raw_included_of(included) == included.token

\* "%s from %s" % (included, file.name), kept as the pair
notfound_msg(included, file_name) == <<included, file_name>>

\* merge_directory that records the edge without comparing the directories
merge_directory_unchecked(file_name, edgemap, include_file) ==
    put_edge_def(edgemap, dirname(include_file), dirname(file_name))

merge_directory(file_name, edgemap, include_file) ==
    LET origin == dirname(include_file)
        destination == dirname(file_name)
    IN  IF origin # destination
        THEN put_edge_def(edgemap, origin, destination)
        ELSE edgemap

\* What the line resolves to: None when the pattern does not match it or
\* search_includes finds nothing (kept in the history variable)
resolved_include(ln, file_name) ==
    LET regex == build_include_regex(context.quote_types)
    IN  IF ~ regex_match(regex, ln) THEN None
        ELSE search_includes(raw_included_of(matcher_group(regex, ln)),
                             file_name, context.include_paths)

\* The body of the loop  for line in file  of collect_include_dependencies:
\* st is [edges, clusters, notfound] before the line, the value is st after.
collect_line(st, ln, file_name) ==
    LET regex == build_include_regex(context.quote_types)
    IN  IF ~ regex_match(regex, ln) THEN st
        ELSE
        LET included == matcher_group(regex, ln)
            include_file == search_includes(raw_included_of(included), file_name,
                                            context.include_paths)
        IN  IF include_file = None
            THEN [st EXCEPT !.notfound = @ \cup {notfound_msg(included, file_name)}]
            ELSE IF context.merge = "directory"
            THEN [st EXCEPT !.edges = merge_directory(file_name, @, include_file)]
            ELSE
            LET includefile_display ==
                    to_display_version(include_file, context.paths, context.merge)
                file_display ==
                    to_display_version(file_name, context.paths, context.merge)
                grouped ==
                    IF context.groups
                    THEN put_cluster_def(
                             put_cluster_def(st.clusters, include_file,
                                             includefile_display),
                             file_name, file_display)
                    ELSE st.clusters
            IN  [st EXCEPT
                    !.clusters = grouped,
                    !.edges = IF file_display # includefile_display
                              THEN put_edge_def(@, includefile_display, file_display)
                              ELSE @]

\* dict.update: the count of a key of the second dict replaces the first's
dict_update(d, other) ==
    [k \in DOMAIN d \cup DOMAIN other |->
        IF k \in DOMAIN other THEN other[k] ELSE d[k]]

\* A map without the keys of one including file (kept in the history variable)
without_file(d, file_name) ==
    [k \in {x \in DOMAIN d : x[1] # file_name} |-> d[k]]

\* The sum of two edge-count maps, key by key (kept in the history variable)
dict_sum(d, other) ==
    [k \in DOMAIN d \cup DOMAIN other |->
        dict_get(d, k, 0) + dict_get(other, k, 0)]

-----------------------------------------------------------------------------
(* Emitter *)

\* An edge statement that is annotated from count one on
edge_statement_from_one(edge_def, num_dep) ==
    [edge |-> edge_def, penwidth |-> IF num_dep >= 1 THEN num_dep ELSE 0]

\* One pass of the loop of write_edge_definitions: the statement written for
\* an edge; penwidth 0 stands for no  [penwidth=..]  suffix.
edge_statement(edge_def, num_dep) ==
    [edge |-> edge_def, penwidth |-> IF num_dep > 1 THEN num_dep ELSE 0]

write_edge_definitions(edgemap) ==
    {edge_statement(e, edgemap[e]) : e \in DOMAIN edgemap}

\* map(f, xs) used for its effect: Python 2 calls f on every element, Python 3
\* builds an iterator nobody consumes, and f is never called.
map_effect(xs) == IF py3 THEN {} ELSE xs

\* fout.write over one section; the order inside the edge and cluster sections
\* is the iteration order of a dict or set and is not kept.
fout_write(sink, sec, body) ==
    IF body = {} THEN sink ELSE Append(sink, [sec |-> sec, body |-> body])

\* Text order of the names of the scanned tree (byte order of str.__lt__)
StemOrder == <<"bar", "d", "foo">>
ExtOrder == <<"", "cpp", "h">>
DelimOrder == <<"quote", "angle", "bare">>

IndexOf(seq, x) == CHOOSE i \in 1 .. Len(seq) : seq[i] = x

RECURSIVE path_key(_)
path_key(path) ==
    IF path = << >> THEN << >>
    ELSE << IndexOf(StemOrder, Head(path)[1]), IndexOf(ExtOrder, Head(path)[2]) >>
         \o path_key(Tail(path))

\* The message text begins with the opening delimiter ('"' < '<' < letters),
\* then the token, then the including file.
msg_key(msg) ==
    << IndexOf(DelimOrder, msg[1].delim) >> \o path_key(msg[1].token)
        \o << 0 >> \o path_key(msg[2])

RECURSIVE seq_less(_, _)
seq_less(a, b) ==
    IF a = << >> THEN b # << >>
    ELSE IF b = << >> THEN FALSE
    ELSE IF Head(a) # Head(b) THEN Head(a) < Head(b)
    ELSE seq_less(Tail(a), Tail(b))

\* sorted(not_found)
RECURSIVE sorted(_)
sorted(msgs) ==
    IF msgs = {} THEN << >>
    ELSE LET least == CHOOSE m \in msgs :
                          \A n \in msgs \ {m} : seq_less(msg_key(m), msg_key(n))
         IN  << least >> \o sorted(msgs \ {least})

-----------------------------------------------------------------------------
(* The scanned tree and the options of a run *)

FOO_CPP == << Seg("foo", "cpp") >>
FOO_H == << Seg("foo", "h") >>
BAR_H == << Seg("bar", "h") >>
D == << Seg("d", "") >>

\* collect_cfiles('.'): os.walk yields the top directory before d, and the
\* names of one directory in the order the file system lists them, which
\* nothing fixes.
FileOrders == { << FOO_CPP, FOO_H, D \o BAR_H >>,
                << FOO_H, FOO_CPP, D \o BAR_H >> }

At(path) == [up |-> 0, down |-> path]

WorldDisk == [dirs |-> {At(D)},
              files |-> {At(FOO_CPP), At(FOO_H), At(D \o BAR_H)}]

\* foo.h is found from every file; bar.h is found through -i d only, and
\* is a missing header in a run without -i
Tokens == {FOO_H, BAR_H}

\* The lines a file can hold: an include of a token in either style, and a
\* line of other text
Lines == [style : {"angle", "quote"}, token : Tokens]
             \cup {[style |-> "text", token |-> << >>]}

NoLine == [style |-> "text", token |-> << >>]

\* parse_cmdline_options: the defaults, and what -m -p -g -q -i can set.
\* -e, -o, -s and -t keep their defaults: every collected file is scanned, from
\* the working directory, and the graph text goes to sys.stdout.
Contexts == [merge : {"file", "module", "directory"},
             paths : BOOLEAN,
             groups : BOOLEAN,
             quote_types : {"both", "angle", "quote", "system"},
             include_paths : {<< >>, << D >>}]

DefaultContext == [merge |-> "file", paths |-> FALSE, groups |-> FALSE,
                   quote_types |-> "both", include_paths |-> << >>]

\* The default display: -m file, no -p
BasenameFileMerge == context.merge = "file" /\ ~ context.paths

\* sys.stderr.write of log(): one entry stands for a run of consecutive
\* log lines, whose texts are not kept
LogEntry == << [delim |-> "log", token |-> << >>], << >> >>

\* log(msg): if debug: sys.stderr.write(msg + '\n')
log(stream) ==
    IF ~ debug THEN stream
    ELSE IF stream # << >> /\ stream[Len(stream)] = LogEntry THEN stream
    ELSE Append(stream, LogEntry)

-----------------------------------------------------------------------------
(* main: parse_cmdline_options, collect_dependencies, output_dependencies *)

RunStart ==
    /\ pc = "start"
    /\ context = DefaultContext
    /\ debug = FALSE
    /\ idx = 1
    /\ open_files = {}
    /\ fp = 0
    /\ tb = 0
    /\ lineno = 0
    /\ line = NoLine
    /\ edges = EmptyDict
    /\ clusters = {}
    /\ notfound = {}
    /\ all_edges = EmptyDict
    /\ all_clusters = {}
    /\ all_notfound = {}
    /\ out = << >>
    /\ err = << >>
    /\ total = EmptyDict
    /\ seen = EmptyDict

SearchIdle ==
    /\ s_pc = "idle"
    /\ s_dir = << >>
    /\ s_token = << >>
    /\ s_paths = << >>
    /\ s_result = None

Init ==
    /\ py3 \in BOOLEAN
    /\ files \in FileOrders
    /\ disk = WorldDisk
    /\ RunStart
    /\ SearchIdle

\* parse_cmdline_options returns program_options; -d has set debug or not
ParseCmdlineOptions ==
    /\ pc = "start"
    /\ context' \in Contexts
    /\ debug' \in BOOLEAN
    /\ pc' = "loop"
    /\ UNCHANGED <<py3, files, disk, idx, handle_vars, local_vars, acc_vars,
                   out, err, search_vars>>

\* getopt raises GetoptError (unknown option, missing value): show_usage()
\* writes the usage text to sys.stdout, then sys.exit(1)
BadOption ==
    /\ pc = "start"
    /\ out' = Append(out, [sec |-> "usage", body |-> {"usage"}])
    /\ pc' = "exit1"
    /\ UNCHANGED <<env_vars, idx, handle_vars, local_vars, acc_vars, err,
                   search_vars>>

\* -h: show_usage(), then sys.exit(0); a -d before it has set debug
ShowUsage ==
    /\ pc = "start"
    /\ debug' \in BOOLEAN
    /\ out' = Append(out, [sec |-> "usage", body |-> {"usage"}])
    /\ pc' = "exit0"
    /\ UNCHANGED <<context, py3, files, disk, idx, handle_vars, local_vars,
                   acc_vars, err, search_vars>>

\* -v: show_version_info() writes name and version to sys.stdout, then
\* sys.exit(0)
ShowVersionInfo ==
    /\ pc = "start"
    /\ debug' \in BOOLEAN
    /\ out' = Append(out, [sec |-> "version", body |-> {"version"}])
    /\ pc' = "exit0"
    /\ UNCHANGED <<context, py3, files, disk, idx, handle_vars, local_vars,
                   acc_vars, err, search_vars>>

\* A loop whose return statement sits inside the loop body
loop_returns_early == idx > 1

\* for file_name in files: nothing is left to iterate
loop_exhausted == idx > Len(files)

\* A file object is closed by fp.close(), or by the interpreter when its last
\* reference goes.  The references are the local fp and, in Python 2, the
\* saved traceback of the last exception, which holds the frame of
\* collect_include_dependencies and with it the file that failed to read.
\* released(h, keep): the handles closed when reference h goes while the
\* reference keep stays.
released(h, keep) == {h} \ {keep}

\* fp = open(file_name, 'r') succeeds; collect_include_dependencies begins.
\* fp is rebound: the file it was bound to is closed unless the saved
\* traceback holds it.
OpenFile ==
    /\ pc = "loop" /\ ~ loop_exhausted
    /\ pc' = "scan"
    /\ fp' = idx
    /\ open_files' = (open_files \ released(fp, tb)) \cup {idx}
    /\ UNCHANGED <<env_vars, idx, tb, local_vars, acc_vars, out, err,
                   search_vars>>

\* open raises IOError: control goes to except IOError.  fp keeps its
\* binding; the new exception replaces the saved traceback.
OpenFails ==
    /\ pc = "loop" /\ ~ loop_exhausted
    /\ pc' = "except"
    /\ tb' = 0
    /\ open_files' = open_files \ released(tb, fp)
    /\ UNCHANGED <<env_vars, idx, fp, local_vars, acc_vars, out, err,
                   search_vars>>

\* for line in file: one line is read and handled; search_includes logs
ReadLine ==
    /\ pc = "scan" /\ lineno < MaxLines
    /\ \E ln \in Lines :
        LET st == collect_line([edges |-> edges, clusters |-> clusters,
                                notfound |-> notfound], ln, files[idx])
        IN  /\ line' = ln
            /\ edges' = st.edges
            /\ clusters' = st.clusters
            /\ notfound' = st.notfound
            /\ err' = IF regex_match(build_include_regex(context.quote_types), ln)
                      THEN log(err)
                      ELSE err
            /\ seen' = LET include_file == resolved_include(ln, files[idx])
                       IN  IF include_file = None \/ ~ BasenameFileMerge
                           THEN seen
                           ELSE put_edge_def(seen, include_file, files[idx])
    /\ lineno' = lineno + 1
    /\ UNCHANGED <<env_vars, pc, idx, handle_vars, all_edges, all_clusters,
                   all_notfound, total, out, search_vars>>

\* Reading raises IOError inside collect_include_dependencies: its locals are
\* gone, the three update calls are skipped, control goes to except IOError.
\* No statement on this path closes the handle: fp refers to it, and in
\* Python 2 the saved traceback now holds it in place of what it held.
ReadFails ==
    /\ pc = "scan"
    /\ pc' = "except"
    /\ tb' = IF py3 THEN 0 ELSE idx
    /\ open_files' = open_files \ released(tb, fp)
    /\ lineno' = 0
    /\ line' = NoLine
    /\ edges' = EmptyDict
    /\ clusters' = {}
    /\ notfound' = {}
    /\ seen' = without_file(seen, files[idx])
    /\ UNCHANGED <<env_vars, idx, fp, all_edges, all_clusters, all_notfound,
                   total, out, err, search_vars>>

\* except IOError: log(..); the else branch with fp.close() does not run, and
\* the loop takes the next file.
ExceptIOError ==
    /\ pc = "except"
    /\ err' = log(err)
    /\ pc' = "loop"
    /\ idx' = idx + 1
    /\ UNCHANGED <<env_vars, handle_vars, local_vars, acc_vars, out,
                   search_vars>>

\* Python 3 decodes the file as it reads: bytes that are no valid text raise
\* UnicodeDecodeError, a ValueError, which except IOError does not catch.
\* The exception leaves main.
ReadRaisesDecodeError ==
    /\ pc = "scan" /\ py3
    /\ pc' = "aborted"
    /\ lineno' = 0
    /\ line' = NoLine
    /\ edges' = EmptyDict
    /\ clusters' = {}
    /\ notfound' = {}
    /\ seen' = without_file(seen, files[idx])
    /\ UNCHANGED <<env_vars, idx, handle_vars, all_edges, all_clusters,
                   all_notfound, total, out, err, search_vars>>

\* The file is exhausted: collect_include_dependencies returns, the three
\* update calls run, then else: fp.close()
EndOfFile ==
    /\ pc = "scan"
    /\ all_edges' = dict_update(all_edges, edges)
    /\ all_clusters' = all_clusters \cup clusters
    /\ all_notfound' = all_notfound \cup notfound
    /\ total' = dict_sum(total, edges)
    /\ open_files' = open_files \ {idx}
    /\ lineno' = 0
    /\ line' = NoLine
    /\ edges' = EmptyDict
    /\ clusters' = {}
    /\ notfound' = {}
    /\ idx' = idx + 1
    /\ pc' = "loop"
    /\ UNCHANGED <<env_vars, fp, tb, seen, out, err, search_vars>>

\* collect_dependencies returns: its frame goes, and with it fp and the
\* saved traceback, so every file object still open is closed by the
\* interpreter.  Then output_dependencies: write_header
WriteHeader ==
    /\ pc = "loop" /\ loop_exhausted
    /\ open_files' = {}
    /\ fp' = 0
    /\ tb' = 0
    /\ out' = fout_write(out, "header", {"source tree"})
    /\ pc' = "edges"
    /\ UNCHANGED <<env_vars, idx, local_vars, acc_vars, err, search_vars>>

WriteEdges ==
    /\ pc = "edges"
    /\ out' = fout_write(out, "edges", write_edge_definitions(all_edges))
    /\ pc' = "clusters"
    /\ UNCHANGED <<env_vars, idx, handle_vars, local_vars, acc_vars, err,
                   search_vars>>

\* write_cluster_definitions: map(lambda cluster_def: fout.write(..), clusters)
WriteClusters ==
    /\ pc = "clusters"
    /\ out' = fout_write(out, "clusters", map_effect(all_clusters))
    /\ pc' = "footer"
    /\ UNCHANGED <<env_vars, idx, handle_vars, local_vars, acc_vars, err,
                   search_vars>>

WriteFooter ==
    /\ pc = "footer"
    /\ out' = fout_write(out, "footer", {"}"})
    /\ pc' = "alert"
    /\ UNCHANGED <<env_vars, idx, handle_vars, local_vars, acc_vars, err,
                   search_vars>>

\* alert_notfounds: map(lambda msg: sys.stderr.write(..), sorted(not_found)),
\* then fout.close()
AlertNotfounds ==
    /\ pc = "alert"
    /\ err' = err \o sorted(map_effect(all_notfound))
    /\ pc' = "done"
    /\ UNCHANGED <<env_vars, idx, handle_vars, local_vars, acc_vars, out,
                   search_vars>>

Next ==
    \/ ParseCmdlineOptions
    \/ BadOption
    \/ ShowUsage
    \/ ShowVersionInfo
    \/ OpenFile
    \/ OpenFails
    \/ ReadLine
    \/ ReadFails
    \/ ExceptIOError
    \/ ReadRaisesDecodeError
    \/ EndOfFile
    \/ WriteHeader
    \/ WriteEdges
    \/ WriteClusters
    \/ WriteFooter
    \/ AlertNotfounds

Spec == Init /\ [][Next]_vars

-----------------------------------------------------------------------------
(* One call of the resolver on chosen arguments and a chosen file system *)

SRC == << Seg("src", "") >>
SUB == << Seg("sub", "") >>
INC == << Seg("inc", "") >>
X_H == << Seg("x", "h") >>
A_CPP == << Seg("a", "cpp") >>

\* The directories written before the file name of a token
RECURSIVE TokenDirs(_)
TokenDirs(n) ==
    IF n = 0 THEN {<< >>}
    ELSE TokenDirs(n - 1)
            \cup {p \o s : p \in TokenDirs(n - 1), s \in {<< UP >>, SUB}}

\* x.h behind up to MaxTokenDirs directories, and the empty token of
\* #include ""
SearchTokens == {p \o X_H : p \in TokenDirs(MaxTokenDirs)} \cup {<< >>}

SearchDirs == {<< >>, SRC, SRC \o SUB}

SearchPaths == {<< >>, << INC >>, << SRC >>, << INC, SRC >>, << SRC, INC >>}

SearchDisks ==
    [dirs : {{At(SRC), At(SRC \o SUB), At(INC), At(SUB)}},
     files : SUBSET {At(X_H), At(SRC \o X_H), At(INC \o X_H), At(SUB \o X_H),
                     At(SRC \o SUB \o X_H),
                     [up |-> 1, down |-> X_H]}]

\* file.name of the including file
s_filename == join(s_dir, A_CPP)

InitSearch ==
    /\ py3 = FALSE
    /\ files = << >>
    /\ RunStart
    /\ disk \in SearchDisks
    /\ s_pc = "args"
    /\ s_dir \in SearchDirs
    /\ s_token \in SearchTokens
    /\ s_paths \in SearchPaths
    /\ s_result = None

CallSearchIncludes ==
    /\ s_pc = "args"
    /\ s_result' = search_includes(s_token, s_filename, s_paths)
    /\ s_pc' = "searched"
    /\ UNCHANGED <<run_vars, disk, s_dir, s_token, s_paths>>

\* The first candidate alone: tidy_path(os.path.join(dirname, incl_stmt))
CallTidyPath ==
    /\ s_pc = "args"
    /\ s_result' = rel_path(s_token, s_filename)
    /\ s_pc' = "tidied"
    /\ UNCHANGED <<run_vars, disk, s_dir, s_token, s_paths>>

NextSearch == CallSearchIncludes \/ CallTidyPath

SpecSearch == InitSearch /\ [][NextSearch]_vars

-----------------------------------------------------------------------------
(* Properties *)

\* The candidates of one search, in the order the claim lists them
Candidates(incl_stmt, filename, include_paths) ==
    << rel_path(incl_stmt, filename) >>
        \o [i \in 1 .. Len(include_paths) |-> tmp_path(incl_stmt, include_paths[i])]
        \o << incl_stmt >>

ExistingCandidates(c) == {i \in 1 .. Len(c) : exists(c[i])}

\* C1: search_includes returns the first candidate that exists, in the order
\* (1) relative to the including file, (2) each include directory in the
\* order given, (3) relative to the working directory; None is returned
\* exactly when no candidate exists.
C1_FirstExistingCandidate ==
    s_pc = "searched" =>
        LET c == Candidates(s_token, s_filename, s_paths)
            hits == ExistingCandidates(c)
        IN  IF hits = {}
            THEN s_result = None
            ELSE \E i \in hits : (\A j \in hits : i <= j) /\ s_result = c[i]

\* The relative candidate and a different include-directory candidate both
\* exist, and the relative one was returned.
C1_Witness ==
    /\ s_pc = "searched"
    /\ LET c == Candidates(s_token, s_filename, s_paths)
       IN  /\ exists(c[1])
           /\ \E i \in 2 .. Len(c) - 1 : exists(c[i]) /\ c[i] # c[1]
           /\ s_result = c[1]

AfterCollect == pc \in {"edges", "clusters", "footer", "alert", "done"}

\* C2: after collect_dependencies the count stored for every edge is the
\* number of resolved include lines, summed over all files read, that
\* format to that edge.
C2_CountsAreTotals == AfterCollect => all_edges = total

\* The edge section of what was written
EdgeSection ==
    UNION {out[i].body : i \in {j \in 1 .. Len(out) : out[j].sec = "edges"}}

\* The names of the files that the include lines of the files read resolved to
HeaderNames == {basename(k[2]) : k \in DOMAIN seen}

\* The number of include lines of the file that resolved to a file named h
RECURSIVE count_over(_, _)
count_over(d, keys) ==
    IF keys = {} THEN 0
    ELSE LET k == CHOOSE x \in keys : TRUE
         IN  d[k] + count_over(d, keys \ {k})

IncludesOf(f, h) ==
    count_over(seen, {k \in DOMAIN seen : k[1] = f /\ basename(k[2]) = h})

ScannedFiles == {files[i] : i \in 1 .. Len(files)}

\* No other scanned file has the basename of f
OwnBasename(f) ==
    \A g \in ScannedFiles \ {f} : basename(g) # basename(f)

\* Two distinct files, each with exactly one include line resolved to a file
\* named h
OnceEach(f1, f2, h) ==
    /\ f1 # f2
    /\ IncludesOf(f1, h) = 1
    /\ IncludesOf(f2, h) = 1

\* The statements of the edge section that point to h
StatementsTo(h) == {st \in EdgeSection : st.edge[2] = h}

\* C3 as stated: when two distinct files, neither of them common.h itself,
\* each include common.h, an edge statement for common.h carries the weight
\* of count 2.
C3_SharedHeaderWeightTwo ==
    (pc = "done" /\ BasenameFileMerge) =>
        \A f1, f2 \in ScannedFiles : \A h \in HeaderNames :
            (OnceEach(f1, f2, h) /\ basename(f1) # h /\ basename(f2) # h) =>
                \E st \in StatementsTo(h) : st.penwidth = 2

\* C3 amended: under file merge with basenames, (1) two distinct files, each
\* with a basename of its own that is not the header's, each with exactly
\* one include line resolved to common.h, have one edge statement to
\* common.h each, without weight annotation; (2) a file named like the
\* header it includes has no edge statement to it; (3) there is one statement
\* per key of the edge map, annotated exactly when the stored count exceeds
\* one, with that count.
C3_OneUnweightedEdgePerIncluder ==
    (pc = "done" /\ BasenameFileMerge) =>
        /\ \A f1, f2 \in ScannedFiles : \A h \in HeaderNames :
              ( /\ OnceEach(f1, f2, h)
                /\ OwnBasename(f1) /\ OwnBasename(f2)
                /\ basename(f1) # h /\ basename(f2) # h )
              => \A f \in {f1, f2} :
                    {st \in StatementsTo(h) : st.edge[1] = basename(f)}
                        = {[edge |-> <<basename(f), h>>, penwidth |-> 0]}
        /\ \A f \in ScannedFiles :
              \A st \in StatementsTo(basename(f)) : st.edge[1] # basename(f)
        /\ EdgeSection =
              {[edge |-> e,
                penwidth |-> IF all_edges[e] > 1 THEN all_edges[e] ELSE 0] :
                 e \in DOMAIN all_edges}

\* foo.cpp and d/bar.h each include foo.h once and have one unannotated edge
\* statement each, while foo.h, which includes itself once, has none.
C3_Witness ==
    /\ pc = "done" /\ BasenameFileMerge
    /\ OnceEach(FOO_CPP, D \o BAR_H, FOO_H)
    /\ IncludesOf(FOO_H, FOO_H) = 1
    /\ StatementsTo(FOO_H) =
          {[edge |-> <<FOO_CPP, FOO_H>>, penwidth |-> 0],
           [edge |-> <<BAR_H, FOO_H>>, penwidth |-> 0]}

\* A step that consumed one line of the open file
LineStep == pc = "scan" /\ lineno' = lineno + 1

\* C4: under the filter angle a "..." line yields no reference, under the
\* filter quote a <...> line yields no reference.
C4_FilterDropsOtherStyle ==
    [][ ( /\ LineStep
          /\ \/ context.quote_types = "angle" /\ line'.style = "quote"
             \/ context.quote_types = "quote" /\ line'.style = "angle" )
        => UNCHANGED <<edges, clusters, notfound>> ]_vars

\* The quoting styles the filter is documented to admit
AdmittedStyles(quote_types) ==
    CASE quote_types = "angle" -> {"angle"}
      [] quote_types = "quote" -> {"quote"}
      [] OTHER -> {"angle", "quote"}

\* The line consumed is an include line of an admitted style, it matched
\* the pattern, and its token was found nowhere
UnresolvedLineStep ==
    /\ LineStep
    /\ line'.style \in AdmittedStyles(context.quote_types)
    /\ regex_match(build_include_regex(context.quote_types), line')
    /\ search_includes(line'.token, files[idx], context.include_paths) = None

\* The unresolved-include messages on stderr, the debug lines left out
NotfoundWritten == SelectSeq(err, LAMBDA m : m # LogEntry)

\* C5: an unresolved include line records '<token> from <file>', the token
\* being the text between the delimiters, touches no edge and no cluster,
\* and the scan goes on; the entries reach stderr in sorted order.
C5_UnresolvedRecorded ==
    /\ [][ UnresolvedLineStep =>
             /\ notfound' = notfound \cup
                    {notfound_msg([delim |-> "bare", token |-> line'.token],
                                  files[idx])}
             /\ pc' = "scan"
             /\ UNCHANGED <<edges, clusters>> ]_vars
    /\ [](pc = "done" => NotfoundWritten = sorted(all_notfound))

\* A step in which opening or reading the current file failed
FailureStep ==
    \/ pc = "loop" /\ pc' = "except"
    \/ pc = "scan" /\ pc' \in {"except", "aborted"}

\* C6: a failure of open or read is caught for that file alone: nothing is
\* added to the accumulated results, and the loop goes on with the next file.
C6_FailureIsPerFile ==
    /\ [][ FailureStep =>
             /\ pc' = "except"
             /\ UNCHANGED <<all_edges, all_clusters, all_notfound>> ]_vars
    /\ [][ pc = "except" =>
             /\ pc' = "loop" /\ idx' = idx + 1
             /\ UNCHANGED <<all_edges, all_clusters, all_notfound>> ]_vars

GraphSections == {"header", "edges", "clusters", "footer"}

SectionRank(sec) ==
    CASE sec = "header" -> 1
      [] sec = "edges" -> 2
      [] sec = "clusters" -> 3
      [] sec = "footer" -> 4
      [] OTHER -> 0

\* C7: nothing is written while the files are being scanned; a section of
\* the graph is written only when every file has been scanned; the sections
\* come in the order header, edges, clusters, footer; and once anything is
\* written the three accumulated results no longer change.
C7_OutputAfterCollection ==
    /\ [](pc \in {"loop", "scan", "except", "aborted"} => out = << >>)
    /\ []((\E i \in 1 .. Len(out) : out[i].sec \in GraphSections) =>
            /\ idx > Len(files)
            /\ AfterCollect
            /\ \A i, j \in 1 .. Len(out) :
                    i < j => SectionRank(out[i].sec) < SectionRank(out[j].sec))
    /\ [][ out' # << >> =>
             UNCHANGED <<all_edges, all_clusters, all_notfound>> ]_vars

\* All four sections were written.
C7_Witness ==
    /\ pc = "done"
    /\ Len(out) = 4
    /\ all_notfound # {}

\* C8: at most one source file is open at any time, each file is closed
\* before the loop goes on, and none is open after the loop.
C8_OneFileOpen ==
    /\ Cardinality(open_files) <= 1
    /\ (pc = "loop" \/ AfterCollect) => open_files = {}

\* C9: the first candidate denotes the location of the token taken relative
\* to the including file's directory.
C9_TidyKeepsLocation ==
    s_pc = "tidied" => normpath(s_result) = normpath(join(s_dir, s_token))

\* C10: no edge, of the current file or accumulated, joins a name to itself.
C10_NoSelfLoop ==
    \A e \in DOMAIN edges \cup DOMAIN all_edges : e[1] # e[2]

\* Under directory merge foo.cpp has included foo.h of its own directory,
\* and no edge was recorded.
C10_Witness ==
    /\ context.merge = "directory"
    /\ pc = "scan" /\ files[idx] = FOO_CPP /\ lineno = 1
    /\ line = [style |-> "quote", token |-> FOO_H]
    /\ context.quote_types = "both"
    /\ edges = EmptyDict

====
